---- MODULE Spec2Model ----
(***************************************************************************)
(* Model of the domain-scoped site crawler of                              *)
(* src/Desktop/multithreads_crawling/main.py: crawl_website_single_site    *)
(* and its worker coroutine crawl_page, run by the asyncio event loop     *)
(* (Spec, FairSpec); the batch of sites of crawl_csv_upload_endpoint       *)
(* (BatchSpec); and the content cleaner clean_markdown (CleanSpec).        *)
(*                                                                         *)
(* Text (hosts, paths, file names) is a sequence of one-character strings. *)
(* A URL is a record [netloc, path], which is what urlparse makes of it.   *)
(* The event loop is cooperative: one task runs at a time, from one        *)
(* suspension point (an await that really waits) to the next; tasks that   *)
(* become runnable are run in the order in which they became runnable.     *)
(***************************************************************************)
EXTENDS Integers, Sequences, FiniteSets, TLC

(* ------------------------------ bounds --------------------------------- *)
\* largest max_depth a crawl is started with
MaxDepth == 2
\* largest max_concurrency a crawl is started with
MaxConc == 2
\* largest number of lines of an uploaded CSV file
MaxSites == 2
\* largest length of a text handed to clean_markdown
MaxTextLen == 3

(* ------------------------------- text ---------------------------------- *)
\* str.lower() on the alphabet of the model
lower_char(c) ==
    CASE c = "P" -> "p" [] c = "N" -> "n" [] c = "G" -> "g" [] OTHER -> c

lower(s) == [i \in 1..Len(s) |-> lower_char(s[i])]

\* str.replace(old, new) for a one-character old
replace(s, old, new) == [i \in 1..Len(s) |-> IF s[i] = old THEN new ELSE s[i]]

RECURSIVE lstrip(_, _)
lstrip(s, chars) ==
    IF s # <<>> /\ Head(s) \in chars THEN lstrip(Tail(s), chars) ELSE s

RECURSIVE rstrip(_, _)
rstrip(s, chars) ==
    IF s # <<>> /\ s[Len(s)] \in chars
    THEN rstrip(SubSeq(s, 1, Len(s) - 1), chars) ELSE s

strip(s, chars) == rstrip(lstrip(s, chars), chars)

\* re.sub(r'[class]', new, s)
sub_class(s, class, new) ==
    [i \in 1..Len(s) |-> IF s[i] \in class THEN new ELSE s[i]]

\* re.sub(r'[class]+', new, s): every maximal run becomes one new
RECURSIVE sub_runs(_, _, _)
sub_runs(s, class, new) ==
    IF s = <<>> THEN <<>>
    ELSE IF Head(s) \in class
         THEN <<new>> \o sub_runs(lstrip(s, class), class, new)
         ELSE <<Head(s)>> \o sub_runs(Tail(s), class, new)

\* Python's  keyword in s
contains(s, keyword) ==
    \E i \in 1..(Len(s) - Len(keyword) + 1) :
        SubSeq(s, i, i + Len(keyword) - 1) = keyword

(* ------------------------------- URLs ---------------------------------- *)
ExampleHost == <<"e", ".", "c">>
OtherHost == <<"o", ".", "c">>
NoHost == <<>>

Url(netloc, path) == [netloc |-> netloc, path |-> path]

\* the pages of the web the crawls run on
Home == Url(ExampleHost, <<"/">>)
PageA == Url(ExampleHost, <<"/", "a">>)
PageB == Url(ExampleHost, <<"/", "b">>)
PageC == Url(ExampleHost, <<"/", "c">>)
PageD == Url(ExampleHost, <<"/", "d">>)
Image == Url(ExampleHost, <<"/", "i", ".", "P", "N", "G">>)
Foreign == Url(OtherHost, <<"/", "x">>)
\* a start URL with no host, such as "http:///x"
Hostless == Url(NoHost, <<"/", "x">>)

Urls == {Home, PageA, PageB, PageC, PageD, Image, Foreign, Hostless}

\* an href as the fetcher reports it: absolute, or host-relative ("/a")
Rel(u) == Url(NoHost, u.path)

urlparse(url) == url

\* an href that cannot be made into a URL, such as "http://[": urljoin
\* raises ValueError (Invalid IPv6 URL)
BadHref == Url(<<"[">>, <<>>)

urljoin_raises(base, href) == href.netloc = <<"[">>

\* urljoin(base, href): a host-relative href takes the base's host
urljoin(base, href) ==
    IF href.netloc = NoHost THEN Url(base.netloc, href.path) ELSE href

(* --------------------------- name sanitizer ---------------------------- *)
EXCLUDE_KEYWORDS ==
    { <<"p", "d", "f">>, <<"j", "p", "e", "g">>, <<"j", "p", "g">>,
      <<"p", "n", "g">>, <<"w", "e", "b", "p">> }

HostileChars == {"<", ">", ":", "\"", "/", "\\", "|", "?", "*"}
SeparatorChars == {" ", ".", "_", "-"}

max_len_without_suffix == 147

\* sanitize_filename for a URL without a query
sanitize_filename(url) ==
    LET parsed == urlparse(url)
        netloc == replace(parsed.netloc, ".", "_")
        stripped == replace(replace(strip(parsed.path, {"/"}), "/", "_"), ".", "_")
        path == IF stripped = <<>> THEN <<"i", "n", "d", "e", "x">> ELSE stripped
        joined == netloc \o <<"_">> \o path
        f1 == sub_class(joined, HostileChars, "_")
        f2 == sub_runs(f1, SeparatorChars, "_")
        f3 == rstrip(lstrip(f2, {"_"}), {"_"})
        f4 == IF f3 = <<>> THEN <<"u", "r", "l", "_", "#">> ELSE f3
        cut == IF Len(f4) > max_len_without_suffix
               THEN SubSeq(f4, 1, max_len_without_suffix) ELSE f4
    IN  cut \o <<".", "m", "d">>

\* any(keyword in filename.lower() for keyword in EXCLUDE_KEYWORDS)
excluded_by_filter(url) ==
    \E keyword \in EXCLUDE_KEYWORDS : contains(lower(sanitize_filename(url)), keyword)

\* the URLs of the model for which the filter of crawl_page holds
FilteredUrls == { url \in Urls : excluded_by_filter(url) }

(* ------------------------------ the web -------------------------------- *)
\* what the fetcher finds on each page: result.links["internal"], in order
NoLinks == [u \in Urls |-> <<>>]

\* two pages link to the same page, which links back to the seed
WebDiamond ==
    [NoLinks EXCEPT ![Home] = <<PageA, PageB>>, ![PageA] = <<PageC>>,
                    ![PageB] = <<Rel(PageC)>>, ![PageC] = <<Home>>]

\* links to another host, links of a page to itself and back to the seed
WebForeign ==
    [NoLinks EXCEPT ![Home] = <<Foreign, Rel(PageA), Home>>,
                    ![PageA] = <<PageA, Foreign, PageB, Home>>]

\* a page whose file name matches the exclusion filter
WebImage ==
    [NoLinks EXCEPT ![Home] = <<Image, PageA>>, ![Image] = <<PageB, Foreign>>,
                    ![PageA] = <<Rel(Image)>>]

\* a chain longer than the depth limit
WebChain ==
    [NoLinks EXCEPT ![Home] = <<PageA>>, ![PageA] = <<PageB>>,
                    ![PageB] = <<PageC>>, ![PageC] = <<PageD>>]

\* a page with a short and a long path from the seed
WebShortcut ==
    [NoLinks EXCEPT ![Home] = <<PageA, PageB>>, ![PageA] = <<PageC>>,
                    ![PageC] = <<PageD>>, ![PageB] = <<PageD>>,
                    ![PageD] = <<Image>>]

\* a link that cannot be resolved, between two that can
WebBadLink ==
    [NoLinks EXCEPT ![Home] = <<PageA, BadHref, Rel(PageB)>>, ![PageA] = <<BadHref>>]

Webs == {WebDiamond, WebForeign, WebImage, WebChain, WebShortcut, WebBadLink}

StartUrls == {Home, Hostless}

(* ------------------------------- state --------------------------------- *)
VARIABLES
    start_url,          \* arguments of crawl_website_single_site
    max_depth,
    max_concurrency,
    web,                \* the pages behind the fetcher
    crawled_urls,
    queued_urls,
    crawl_queue,        \* asyncio.Queue: its items, oldest first
    unfinished_tasks,   \* asyncio.Queue: puts not yet matched by task_done
    semaphore,          \* asyncio.Semaphore: its value
    sem_waiters,        \* asyncio.Semaphore: workers waiting in acquire
    results,
    written,            \* URLs whose Markdown file is in the output directory
    worker,             \* each crawl_page task: where it is and its locals
    ready,              \* event loop: tasks ready to run, in order
    running,            \* event loop: the task that is running
    main_pc,            \* crawl_website_single_site: where it is
    arun_calls,         \* history: number of crawler.arun calls per URL
    put_log,            \* history: every put on crawl_queue, in order
    fetch_outcome,      \* history: how each URL's fetch ended
    sink_status,        \* history: what process_markdown_and_save returned
    makedirs,           \* history: whether the site's output directory was made
    urls_to_crawl,      \* crawl_csv_upload_endpoint: the start URLs of the CSV file
    site_index,         \* crawl_csv_upload_endpoint: the for loop's position
    site_crawl_results, \* overall_results["site_crawl_results"]
    batch_pc,           \* crawl_csv_upload_endpoint: where it is
    calls,              \* history: the start URLs the site crawl was called with
    metadata,           \* how each write of overall_metadata.json ended
    text_in,            \* clean_markdown: its argument
    text_out,           \* clean_markdown: its value
    clean_pc            \* how often clean_markdown was applied

vars == <<start_url, max_depth, max_concurrency, web, crawled_urls, queued_urls,
          crawl_queue, unfinished_tasks, semaphore, sem_waiters, results,
          written, worker, ready, running, main_pc, arun_calls, put_log,
          fetch_outcome, sink_status, makedirs,
          urls_to_crawl, site_index, site_crawl_results, batch_pc, calls,
          metadata, text_in, text_out, clean_pc>>

\* the state of crawl_csv_upload_endpoint, which a site crawl never touches
batch_vars == <<urls_to_crawl, site_index, site_crawl_results, batch_pc, calls, metadata>>

\* the argument and the value of clean_markdown
clean_vars == <<text_in, text_out, clean_pc>>

\* what no step of a site crawl changes
inputs == <<start_url, max_depth, max_concurrency, web>>

\* what no step of a site crawl changes
fixed == <<inputs, batch_vars, clean_vars>>

Worker(i) == <<"worker", i>>
MainTask == <<"main", 0>>
NoTask == <<"none", 0>>

Workers == 1..max_concurrency

NoUrl == Url(NoHost, <<>>)
NoResult == [success |-> FALSE, raised |-> FALSE, links |-> <<>>, error_message |-> ""]

\* overall_results["site_crawl_results"] = {}
NoEntries == [u \in {} |-> NoResult]

\* a crawl_page task before its first step
FreshWorker ==
    [pc |-> "loop", current_url |-> NoUrl, current_depth |-> 0,
     crawl_start_domain |-> NoHost, filtered |-> FALSE, result |-> NoResult]

\* CrawlQueueItem without the output path, which is the same for every item
QueueItem(url, depth, domain) == [url |-> url, depth |-> depth, domain |-> domain]

\* no request is being served by crawl_csv_upload_endpoint
NoBatch ==
    /\ urls_to_crawl = <<>>
    /\ site_index = 0
    /\ site_crawl_results = NoEntries
    /\ batch_pc = "none"
    /\ calls = <<>>
    /\ metadata = <<>>

\* clean_markdown is not being applied
NoCleaning ==
    /\ text_in = <<>>
    /\ text_out = <<>>
    /\ clean_pc = "none"

Init ==
    /\ start_url \in StartUrls
    /\ max_depth \in 0..MaxDepth
    /\ max_concurrency \in 1..MaxConc
    /\ web \in Webs
    /\ crawled_urls = {}
    /\ queued_urls = {}
    /\ crawl_queue = <<>>
    /\ unfinished_tasks = 0
    /\ semaphore = max_concurrency
    /\ sem_waiters = <<>>
    /\ results = [success |-> <<>>, failed |-> <<>>, skipped_by_filter |-> <<>>,
                  initial_url |-> start_url]
    /\ written = {}
    /\ worker = [i \in Workers |-> FreshWorker]
    /\ ready = <<>>
    /\ running = MainTask
    /\ main_pc = "begin"
    /\ arun_calls = [u \in Urls |-> 0]
    /\ put_log = <<>>
    /\ fetch_outcome = [u \in Urls |-> "none"]
    /\ sink_status = [u \in Urls |-> "none"]
    /\ makedirs = "none"
    /\ NoBatch
    /\ NoCleaning

(* ----------------------- the worker's decisions ------------------------ *)
\* faulty variant: the host of a URL is not compared with the host of the seed
same_domain_any(netloc, crawl_start_domain) == TRUE

\* current_domain != crawl_start_domain, parsed_absolute_url.netloc == crawl_start_domain
same_domain(netloc, crawl_start_domain) == netloc = crawl_start_domain

\* faulty variant: a link is checked against crawled_urls only
not_seen_ignores_queued(url, crawled, queued) == url \notin crawled

\* absolute_url not in crawled_urls and absolute_url not in queued_urls
not_seen(url, crawled, queued) == url \notin crawled /\ url \notin queued

\* faulty variant: the links of the pages one hop below the depth limit are not followed
may_follow_short(current_depth, depth_limit) == current_depth + 1 < depth_limit

\* faulty variant: links are followed from a page at the depth limit too
may_follow_at_limit(current_depth, depth_limit) == current_depth <= depth_limit

\* current_depth < max_depth
may_follow(current_depth, depth_limit) == current_depth < depth_limit

\* faulty variant: the exclusion filter lets every file name through
excluded_never(url) == FALSE

\* any(keyword in filename.lower() for keyword in EXCLUDE_KEYWORDS), with
\* filename = sanitize_filename(current_url)
excluded(url) == url \in FilteredUrls

\* faulty variant: a URL is marked as visited only after its fetch, which
\* never happens here
mark_crawled_not(crawled, url) == crawled

\* crawled_urls.add(current_url), before the filter and the fetch
mark_crawled(crawled, url) == crawled \cup {url}

\* faulty variant: the entry put last is taken first (asyncio.LifoQueue)
get_index_lifo(queue) == Len(queue)

\* asyncio.Queue.get: the entry put first is taken first
get_index(queue) == 1

\* the queue without its entry at position k
remove_at(queue, k) == SubSeq(queue, 1, k - 1) \o SubSeq(queue, k + 1, Len(queue))

\* faulty variant: a filtered page is fetched at the depth limit too
fetches_always(filtered, current_depth, depth_limit) == TRUE

\* a page that passes the filter is fetched; a filtered page is fetched, for
\* its links, only if current_depth < max_depth
fetches(filtered, current_depth, depth_limit) ==
    filtered => may_follow(current_depth, depth_limit)

\* current_depth + 1
child_depth(current_depth) == current_depth + 1

\* faulty variant: a fetch is started without taking a slot
sem_acquire_free(value) == value

\* asyncio.Semaphore: acquire with a free slot, release
sem_acquire(value) == value - 1

sem_release(value) == value + 1

\* faulty variant: an entry is acknowledged twice
task_done_twice(unfinished) == unfinished - 2

\* faulty variant: an entry is never acknowledged
task_done_lost(unfinished) == unfinished

\* asyncio.Queue.task_done
task_done(unfinished) == unfinished - 1

\* faulty variant: an href that cannot be resolved ends the loop over the links
links_after_error_none(links) == <<>>

\* except Exception as link_e inside the for loop: the href is dropped and
\* the loop goes on with the next one
links_after_error(links) == Tail(links)

\* the for loop over internal_links; st is [queue, queued, log]
RECURSIVE follow_links(_, _, _, _)
follow_links(links, item, crawled, st) ==
    IF links = <<>> THEN st
    ELSE IF urljoin_raises(item.url, Head(links))
    THEN follow_links(links_after_error(links), item, crawled, st)
    ELSE LET href == Head(links)
             absolute_url == urljoin(item.url, href)
             parsed_absolute_url == urlparse(absolute_url)
             put == /\ same_domain(parsed_absolute_url.netloc, item.domain)
                    /\ not_seen(absolute_url, crawled, st.queued)
             after ==
                 IF put
                 THEN [queue |-> Append(st.queue,
                                   QueueItem(absolute_url, child_depth(item.depth), item.domain)),
                       queued |-> st.queued \cup {absolute_url},
                       log |-> Append(st.log,
                                   [url |-> absolute_url, depth |-> child_depth(item.depth),
                                    by |-> "link", parent |-> item.url,
                                    parent_depth |-> item.depth])]
                 ELSE st
         IN  follow_links(Tail(links), item, crawled, after)

\* process_markdown_and_save: sink_ok is whether the directory is writable
\* and the file is there after the write
process_markdown_and_save(url, sink_ok) ==
    IF sink_ok THEN [status |-> "success", url |-> url, error |-> ""]
    ELSE [status |-> "failed", url |-> url, error |-> "sink_error"]

\* faulty variant: a page whose file could not be written is recorded nowhere
record_page_drops_write_error(res, url, result, process_result) ==
    IF result.success
    THEN IF process_result.status = "success"
         THEN [res EXCEPT !.success = Append(@, url)]
         ELSE res
    ELSE [res EXCEPT !.failed = Append(@, [url |-> url, error |-> result.error_message])]

\* faulty variant: a page whose file could not be written is listed as saved as well
record_page_also_success(res, url, result, process_result) ==
    IF result.success
    THEN IF process_result.status = "success"
         THEN [res EXCEPT !.success = Append(@, url)]
         ELSE [res EXCEPT !.success = Append(@, url),
                          !.failed = Append(@, [url |-> url, error |-> process_result.error])]
    ELSE [res EXCEPT !.failed = Append(@, [url |-> url, error |-> result.error_message])]

\* the result lists after a fetch on the unfiltered path has returned
record_page(res, url, result, process_result) ==
    IF result.success
    THEN IF process_result.status = "success"
         THEN [res EXCEPT !.success = Append(@, url)]
         ELSE [res EXCEPT !.failed = Append(@, [url |-> url, error |-> process_result.error])]
    ELSE [res EXCEPT !.failed = Append(@, [url |-> url, error |-> result.error_message])]

\* the fetcher's answers for a page
FetchResult(url, outcome) ==
    [success |-> outcome = "success", raised |-> outcome = "raised",
     links |-> web[url],
     error_message |-> IF outcome = "success" THEN "" ELSE "fetch_error"]

FetchOutcomes == {"success", "unsuccessful", "raised"}

(* ------------------------------ actions -------------------------------- *)
\* crawl_queue.join() returns once unfinished_tasks is 0: the waiting
\* crawl_website_single_site becomes ready to run
JoinWakes(unfinished) == unfinished = 0 /\ main_pc = "join"

\* faulty variant: a start URL without a host is crawled like any other
invalid_start_never(start_domain) == FALSE

\* if not start_domain
invalid_start(start_domain) == start_domain = NoHost

\* faulty variant: the crawl goes on without its output directory
cannot_create_ignored(makedirs_ok) == FALSE

\* os.makedirs(site_output_path, exist_ok=True) raised
cannot_create(makedirs_ok) == ~makedirs_ok

\* crawl_website_single_site up to its first suspension, await crawl_queue.join()
crawl_website_single_site ==
    /\ running = MainTask
    /\ main_pc = "begin"
    /\ \E makedirs_ok \in BOOLEAN :
         LET start_domain == urlparse(start_url).netloc IN
         /\ makedirs' = IF invalid_start(start_domain) THEN "none"
                        ELSE IF makedirs_ok THEN "made" ELSE "failed"
         /\ IF invalid_start(start_domain) \/ cannot_create(makedirs_ok)
            THEN /\ results' = [results EXCEPT !.failed = Append(@,
                       [url |-> start_url,
                        error |-> IF invalid_start(start_domain) THEN "no_domain"
                                  ELSE "cannot_create_output_directory"])]
                 /\ main_pc' = "returned"
                 /\ running' = NoTask
                 /\ UNCHANGED <<crawl_queue, queued_urls, unfinished_tasks, put_log,
                                ready>>
            ELSE /\ crawl_queue' = <<QueueItem(start_url, 0, start_domain)>>
                 /\ queued_urls' = {start_url}
                 /\ unfinished_tasks' = 1
                 /\ put_log' = <<[url |-> start_url, depth |-> 0, by |-> "seed",
                                  parent |-> start_url, parent_depth |-> 0]>>
                 /\ ready' = [i \in 1..max_concurrency |-> Worker(i)]
                 /\ main_pc' = "join"
                 /\ running' = NoTask
                 /\ UNCHANGED results
    /\ UNCHANGED <<fixed, crawled_urls, semaphore, sem_waiters, written, worker,
                   arun_calls, fetch_outcome, sink_status>>

\* the event loop runs the next ready task
run_once ==
    /\ running = NoTask
    /\ ready # <<>>
    /\ running' = Head(ready)
    /\ ready' = Tail(ready)
    /\ UNCHANGED <<fixed, makedirs, crawled_urls, queued_urls, crawl_queue, unfinished_tasks,
                   semaphore, sem_waiters, results, written, worker, main_pc,
                   arun_calls, put_log, fetch_outcome, sink_status>>

\* async with semaphore, then the call of crawler.arun: the worker suspends
\* with the fetch in flight, or in acquire when no slot is free
begin_fetch(i, w) ==
    IF semaphore > 0
    THEN /\ semaphore' = sem_acquire(semaphore)
         /\ worker' = [worker EXCEPT ![i] = [w EXCEPT !.pc = "arun"]]
         /\ arun_calls' = [arun_calls EXCEPT ![w.current_url] = @ + 1]
         /\ UNCHANGED sem_waiters
    ELSE /\ worker' = [worker EXCEPT ![i] = [w EXCEPT !.pc = "acquire"]]
         /\ sem_waiters' = Append(sem_waiters, i)
         /\ UNCHANGED <<semaphore, arun_calls>>

\* one pass of crawl_page's while loop from its head: the loop ends, or an
\* entry is taken and handled up to the fetch, or up to task_done and continue
crawl_page_loop(i) ==
    /\ running = Worker(i)
    /\ worker[i].pc = "loop"
    /\ IF crawl_queue = <<>>
       THEN /\ worker' = [worker EXCEPT ![i].pc = "done"]
            /\ running' = NoTask
            /\ UNCHANGED <<crawl_queue, crawled_urls, results, semaphore, sem_waiters,
                           arun_calls, unfinished_tasks, ready, main_pc>>
       ELSE LET item == crawl_queue[get_index(crawl_queue)]
                seen == item.url \in crawled_urls
                external == ~same_domain(urlparse(item.url).netloc, item.domain)
                filtered == excluded(item.url)
                fetch == /\ ~seen
                         /\ ~external
                         /\ fetches(filtered, item.depth, max_depth)
                w == [worker[i] EXCEPT !.current_url = item.url,
                                       !.current_depth = item.depth,
                                       !.crawl_start_domain = item.domain,
                                       !.filtered = filtered,
                                       !.result = NoResult]
                left == task_done(unfinished_tasks)
            IN  /\ crawl_queue' = remove_at(crawl_queue, get_index(crawl_queue))
                /\ crawled_urls' = IF seen THEN crawled_urls
                                   ELSE mark_crawled(crawled_urls, item.url)
                /\ results' = IF ~seen /\ ~external /\ filtered
                              THEN [results EXCEPT !.skipped_by_filter = Append(@, item.url)]
                              ELSE results
                /\ IF fetch
                   THEN /\ begin_fetch(i, w)
                        /\ running' = NoTask
                        /\ UNCHANGED <<unfinished_tasks, ready, main_pc>>
                   ELSE /\ unfinished_tasks' = left
                        /\ ready' = IF JoinWakes(left)
                                    THEN Append(ready, MainTask) ELSE ready
                        /\ main_pc' = IF JoinWakes(left) THEN "joined" ELSE main_pc
                        /\ UNCHANGED <<worker, running, semaphore, sem_waiters, arun_calls>>
    /\ UNCHANGED <<fixed, makedirs, queued_urls, written, put_log, fetch_outcome, sink_status>>

\* the fetcher answers: crawler.arun returns a result or raises, and the
\* waiting worker becomes ready to run
arun_returns(i) ==
    /\ running = NoTask
    /\ worker[i].pc = "arun"
    /\ \E outcome \in FetchOutcomes :
         /\ worker' = [worker EXCEPT
                ![i].pc = "arun_done",
                ![i].result = FetchResult(worker[i].current_url, outcome)]
         /\ fetch_outcome' = [fetch_outcome EXCEPT ![worker[i].current_url] = outcome]
    /\ ready' = Append(ready, Worker(i))
    /\ UNCHANGED <<fixed, makedirs, crawled_urls, queued_urls, crawl_queue, unfinished_tasks,
                   semaphore, sem_waiters, results, written, running, main_pc,
                   arun_calls, put_log, sink_status>>

\* faulty variant: the links are followed whatever result.success is
follows_links_any(result, current_depth, depth_limit) ==
    ~result.raised /\ may_follow(current_depth, depth_limit)

\* if result.success: ... if current_depth < max_depth: on both paths the
\* links of a page are followed when its fetch returned a successful result
follows_links(result, current_depth, depth_limit) ==
    ~result.raised /\ result.success /\ may_follow(current_depth, depth_limit)

\* faulty variant: an exception in a pass ends the worker
next_pc_raise_ends(result) == IF result.raised THEN "done" ELSE "loop"

\* faulty variant: a worker handles one entry and ends
next_pc_one_pass(result) == "done"

\* after task_done, at line 290 or in the except clause at line 293, the
\* worker is back at the head of its while loop
next_pc(result) == "loop"

\* the rest of the pass after the fetch: the result lists, the file, the
\* links, the release of the semaphore slot, task_done
after_fetch(i) ==
    LET w == worker[i]
        item == QueueItem(w.current_url, w.current_depth, w.crawl_start_domain)
        r == w.result
        follows == follows_links(r, w.current_depth, max_depth)
        st0 == [queue |-> crawl_queue, queued |-> queued_urls, log |-> put_log]
        st == IF follows THEN follow_links(r.links, item, crawled_urls, st0) ELSE st0
        saves == ~w.filtered /\ ~r.raised /\ r.success
        woken == sem_waiters # <<>>
        left == task_done(unfinished_tasks + (Len(st.queue) - Len(crawl_queue)))
    IN  /\ \E sink_ok \in BOOLEAN :
             LET process_result == process_markdown_and_save(w.current_url, sink_ok) IN
             /\ results' = IF w.filtered \/ r.raised THEN results
                           ELSE record_page(results, w.current_url, r, process_result)
             /\ written' = IF saves /\ process_result.status = "success"
                           THEN written \cup {w.current_url} ELSE written
             /\ sink_status' = IF saves
                               THEN [sink_status EXCEPT ![w.current_url] = process_result.status]
                               ELSE sink_status
        /\ crawl_queue' = st.queue
        /\ queued_urls' = st.queued
        /\ put_log' = st.log
        /\ semaphore' = sem_release(semaphore)
        /\ sem_waiters' = IF woken THEN Tail(sem_waiters) ELSE sem_waiters
        /\ unfinished_tasks' = left
        /\ ready' = LET r1 == IF woken THEN Append(ready, Worker(Head(sem_waiters)))
                              ELSE ready
                    IN  IF JoinWakes(left) THEN Append(r1, MainTask) ELSE r1
        /\ main_pc' = IF JoinWakes(left) THEN "joined" ELSE main_pc
        /\ worker' = [worker EXCEPT ![i].pc = next_pc(r)]
        /\ running' = IF next_pc(r) = "done" THEN NoTask ELSE running
        /\ UNCHANGED arun_calls

\* if result.success on the unfiltered path: executor.submit(
\* process_markdown_and_save, ...) followed by future.result()
hands_to_executor(w) == ~w.filtered /\ ~w.result.raised /\ w.result.success

\* a worker runs again after its suspension: in acquire, where a slot is
\* now free, or with the answer of the fetcher. With a page to save it
\* submits process_markdown_and_save to the executor and blocks in
\* future.result(), inside async with semaphore and without giving up the
\* event loop
crawl_page_resume(i) ==
    /\ running = Worker(i)
    /\ worker[i].pc \in {"acquire", "arun_done"}
    /\ IF worker[i].pc = "acquire"
       THEN /\ begin_fetch(i, worker[i])
            /\ running' = NoTask
            /\ UNCHANGED <<crawl_queue, queued_urls, put_log, results, written,
                           sink_status, unfinished_tasks, ready, main_pc>>
       ELSE IF hands_to_executor(worker[i])
            THEN /\ worker' = [worker EXCEPT ![i].pc = "future_result"]
                 /\ UNCHANGED <<crawl_queue, queued_urls, put_log, results, written,
                                sink_status, unfinished_tasks, ready, main_pc,
                                running, semaphore, sem_waiters, arun_calls>>
            ELSE after_fetch(i)
    /\ UNCHANGED <<fixed, makedirs, crawled_urls, fetch_outcome>>

\* future.result() returns what process_markdown_and_save returned in the
\* executor's thread, and the pass goes on
future_result(i) ==
    /\ running = Worker(i)
    /\ worker[i].pc = "future_result"
    /\ after_fetch(i)
    /\ UNCHANGED <<fixed, makedirs, crawled_urls, fetch_outcome>>

\* crawl_website_single_site after crawl_queue.join(): the workers still
\* pending are cancelled and the results are returned
crawl_website_single_site_returns ==
    /\ running = MainTask
    /\ main_pc = "joined"
    /\ worker' = [i \in Workers |->
                    IF worker[i].pc = "done" THEN worker[i]
                    ELSE [worker[i] EXCEPT !.pc = "cancelled"]]
    /\ ready' = <<>>
    /\ sem_waiters' = <<>>
    /\ main_pc' = "returned"
    /\ running' = NoTask
    /\ UNCHANGED <<fixed, makedirs, crawled_urls, queued_urls, crawl_queue, unfinished_tasks,
                   semaphore, results, written, arun_calls, put_log, fetch_outcome,
                   sink_status>>

Next ==
    \/ crawl_website_single_site
    \/ run_once
    \/ \E i \in Workers : crawl_page_loop(i)
    \/ \E i \in Workers : arun_returns(i)
    \/ \E i \in Workers : crawl_page_resume(i)
    \/ \E i \in Workers : future_result(i)
    \/ crawl_website_single_site_returns

Spec == Init /\ [][Next]_vars

\* every fetch returns, and the event loop runs every task that is ready
FairSpec == Spec /\ WF_vars(Next)

\* a fetch may never return: the event loop runs every task that is ready,
\* and nothing is assumed of the fetcher
HangSpec ==
    /\ Spec
    /\ WF_vars(\/ crawl_website_single_site
               \/ run_once
               \/ \E i \in Workers : crawl_page_loop(i)
               \/ \E i \in Workers : crawl_page_resume(i)
               \/ \E i \in Workers : future_result(i)
               \/ crawl_website_single_site_returns)

(* ------------------------- the batch of sites -------------------------- *)
\* a line of the uploaded CSV file: the scheme and the rest of its first cell
CsvRow(scheme, url) == [scheme |-> scheme, url |-> url]

CsvRows ==
    {CsvRow("http", Home), CsvRow("https", Foreign), CsvRow("http", Hostless),
     CsvRow("ftp", Home)}

\* the files of at most MaxSites lines
CsvFiles == UNION { [1..n -> CsvRows] : n \in 0..MaxSites }

\* read_urls_from_csv: the cells that start with http:// or https:// and
\* parse to a URL with a host, in the order of the lines
read_urls_from_csv(rows) ==
    LET kept == SelectSeq(rows, LAMBDA row :
                    /\ row.scheme \in {"http", "https"}
                    /\ urlparse(row.url).netloc # NoHost)
    IN  [k \in 1..Len(kept) |-> kept[k].url]

\* the depth limits and the webs of the batch requests
BatchDepths == {0, 1}

BatchWebs == {WebForeign, WebImage}

\* the entry the except clause of the for loop stores for a site
ErrorEntry == [status |-> "error", message |-> "unexpected_error"]

\* overall_results["site_crawl_results"][url] = entry
store(entries, url, entry) ==
    [u \in DOMAIN entries \cup {url} |-> IF u = url THEN entry ELSE entries[u]]

\* faulty variant: the except clause of the for loop only prints the error
store_error_dropped(entries, url) == entries

\* except Exception as e: ... site_crawl_results[url] = {"status": "error", ...}
store_error(entries, url) == store(entries, url, ErrorEntry)

\* faulty variant: the loop does not wait for the site crawl it started
site_finished_always(pc) == TRUE

\* site_results = await crawl_website_single_site(...): the loop goes on when
\* the call has returned
site_finished(pc) == pc = "returned"

BatchInit ==
    /\ \E rows \in CsvFiles : urls_to_crawl = read_urls_from_csv(rows)
    /\ max_depth \in BatchDepths
    /\ max_concurrency \in 1..MaxConc
    /\ web \in BatchWebs
    /\ start_url = NoUrl
    /\ crawled_urls = {}
    /\ queued_urls = {}
    /\ crawl_queue = <<>>
    /\ unfinished_tasks = 0
    /\ semaphore = max_concurrency
    /\ sem_waiters = <<>>
    /\ results = [success |-> <<>>, failed |-> <<>>, skipped_by_filter |-> <<>>,
                  initial_url |-> NoUrl]
    /\ written = {}
    /\ worker = [i \in Workers |-> FreshWorker]
    /\ ready = <<>>
    /\ running = MainTask
    /\ main_pc = "idle"
    /\ arun_calls = [u \in Urls |-> 0]
    /\ put_log = <<>>
    /\ fetch_outcome = [u \in Urls |-> "none"]
    /\ sink_status = [u \in Urls |-> "none"]
    /\ makedirs = "none"
    /\ site_index = 0
    /\ site_crawl_results = NoEntries
    /\ batch_pc = "begin"
    /\ calls = <<>>
    /\ metadata = <<>>
    /\ NoCleaning

\* what a step of the batch outside a site crawl leaves alone
site_vars ==
    <<crawled_urls, queued_urls, crawl_queue, unfinished_tasks, semaphore,
      sem_waiters, results, written, worker, ready, running, main_pc, arun_calls,
      put_log, fetch_outcome, sink_status, makedirs>>

\* crawl_csv_upload_endpoint up to the for loop: without a valid URL in the
\* file it returns a warning
crawl_csv_upload_endpoint ==
    /\ batch_pc = "begin"
    /\ batch_pc' = IF urls_to_crawl = <<>> THEN "warning" ELSE "loop"
    /\ UNCHANGED <<inputs, site_vars, clean_vars, urls_to_crawl, site_index,
                   site_crawl_results, calls, metadata>>

\* one turn of the for loop up to the call of crawl_website_single_site
\* with the next start URL: the call starts with fresh locals
call_site ==
    /\ batch_pc = "loop"
    /\ site_index < Len(urls_to_crawl)
    /\ LET url == urls_to_crawl[site_index + 1]
       IN  /\ start_url' = url
           /\ calls' = Append(calls, url)
           /\ results' = [success |-> <<>>, failed |-> <<>>,
                          skipped_by_filter |-> <<>>, initial_url |-> url]
    /\ site_index' = site_index + 1
    /\ batch_pc' = "crawling"
    /\ crawled_urls' = {}
    /\ queued_urls' = {}
    /\ crawl_queue' = <<>>
    /\ unfinished_tasks' = 0
    /\ semaphore' = max_concurrency
    /\ sem_waiters' = <<>>
    /\ written' = {}
    /\ worker' = [i \in Workers |-> FreshWorker]
    /\ ready' = <<>>
    /\ running' = MainTask
    /\ main_pc' = "begin"
    /\ arun_calls' = [u \in Urls |-> 0]
    /\ put_log' = <<>>
    /\ fetch_outcome' = [u \in Urls |-> "none"]
    /\ sink_status' = [u \in Urls |-> "none"]
    /\ makedirs' = "none"
    /\ UNCHANGED <<max_depth, max_concurrency, web, clean_vars, urls_to_crawl,
                   site_crawl_results, metadata>>

\* the call has returned: its result is stored under the start URL
site_returns ==
    /\ batch_pc = "crawling"
    /\ site_finished(main_pc)
    /\ site_crawl_results' = store(site_crawl_results, start_url, results)
    /\ batch_pc' = "loop"
    /\ UNCHANGED <<inputs, site_vars, clean_vars, urls_to_crawl, site_index, calls,
                   metadata>>

\* the call raises before its workers exist (the set-up of the crawler
\* between the seeding of the queue and the executor raises): the except
\* clause of the for loop stores an error entry and the loop goes on
site_raises ==
    /\ batch_pc = "crawling"
    /\ running = MainTask
    /\ main_pc = "begin"
    /\ ~invalid_start(urlparse(start_url).netloc)
    /\ main_pc' = "raised"
    /\ running' = NoTask
    /\ makedirs' = "made"
    /\ site_crawl_results' = store_error(site_crawl_results, start_url)
    /\ batch_pc' = "loop"
    /\ UNCHANGED <<inputs, clean_vars, urls_to_crawl, site_index, calls, metadata,
                   crawled_urls, queued_urls, crawl_queue, unfinished_tasks,
                   semaphore, sem_waiters, results, written, worker, ready,
                   arun_calls, put_log, fetch_outcome, sink_status>>

\* faulty variant: the summary is written inside the for loop
all_sites_done_any(index, urls) == TRUE

\* the for loop over enumerate(urls_to_crawl) has ended
all_sites_done(index, urls) == index = Len(urls)

\* after the for loop: overall_metadata.json is written, or the write
\* fails and metadata_save_error is set; the status is "completed"
write_metadata ==
    /\ batch_pc = "loop"
    /\ all_sites_done(site_index, urls_to_crawl)
    /\ \E write_ok \in BOOLEAN :
         metadata' = Append(metadata, IF write_ok THEN "saved" ELSE "save_error")
    /\ batch_pc' = "completed"
    /\ UNCHANGED <<inputs, site_vars, clean_vars, urls_to_crawl, site_index,
                   site_crawl_results, calls>>

BatchNext ==
    \/ crawl_csv_upload_endpoint
    \/ call_site
    \/ site_returns
    \/ site_raises
    \/ write_metadata
    \/ Next

BatchSpec == BatchInit /\ [][BatchNext]_vars

(* --------------------------- content cleaner --------------------------- *)
\* the characters of the texts: block quote, emphasis and bracket markup,
\* blanks and a letter
MdChars == {">", "*", "_", "(", ")", " ", "a"}

\* the one-line texts of at most MaxTextLen characters
MdTexts == UNION { [1..n -> MdChars] : n \in 0..MaxTextLen }

\* \s, and [ \t]
Whitespace == {" ", "\t", "\n"}

Blank == {" ", "\t"}

\* re.sub(r'^\s{0,3}>\s?', '', s, flags=re.MULTILINE) for a text of one line:
\* at most three white characters, then ">", then one white character if
\* there is one
sub_blockquote(s) ==
    LET k == Len(s) - Len(lstrip(s, Whitespace))
    IN  IF k <= 3 /\ k < Len(s) /\ s[k + 1] = ">"
        THEN IF k + 1 < Len(s) /\ s[k + 2] \in Whitespace
             THEN SubSeq(s, k + 3, Len(s))
             ELSE SubSeq(s, k + 2, Len(s))
        ELSE s

\* the least j >= from where mark occurs in s again with no line break
\* before it, or 0
next_mark(s, mark, from) ==
    LET found == { j \in from..(Len(s) - Len(mark) + 1) :
                     /\ SubSeq(s, j, j + Len(mark) - 1) = mark
                     /\ \A k \in from..(j - 1) : s[k] # "\n" }
    IN  IF found = {} THEN 0 ELSE CHOOSE j \in found : \A k \in found : j <= k

\* re.sub(r'(m1|m2)(.*?)\1', r'\2', s) for the marks of one length: from left
\* to right, a mark and its nearest repetition are removed and the scan goes
\* on behind the repetition
RECURSIVE sub_emphasis(_, _)
sub_emphasis(s, marks) ==
    LET n == Len(CHOOSE m \in marks : TRUE)
        mark == SubSeq(s, 1, n)
        j == next_mark(s, mark, n + 1)
    IN  IF Len(s) < n THEN s
        ELSE IF mark \in marks /\ j # 0
             THEN SubSeq(s, n + 1, j - 1) \o sub_emphasis(SubSeq(s, j + n, Len(s)), marks)
             ELSE <<Head(s)>> \o sub_emphasis(Tail(s), marks)

\* re.sub(r'\(\)', '', s)
RECURSIVE sub_empty_parens(_)
sub_empty_parens(s) ==
    IF Len(s) < 2 THEN s
    ELSE IF SubSeq(s, 1, 2) = <<"(", ")">> THEN sub_empty_parens(SubSeq(s, 3, Len(s)))
         ELSE <<Head(s)>> \o sub_empty_parens(Tail(s))

\* clean_markdown on a text over MdChars. The substitutions for images,
\* links, bare URLs and footnotes need "[" or "://" to match, the one for
\* empty headers "#", the one for blank lines a line break: they leave
\* such a text as it is
clean_markdown(md_text) ==
    LET quote == sub_blockquote(md_text)
        strong == sub_emphasis(quote, {<<"*", "*">>, <<"_", "_">>})
        plain == sub_emphasis(strong, {<<"*">>, <<"_">>})
        parens == sub_empty_parens(plain)
        spaced == sub_runs(parens, Blank, " ")
    IN  strip(spaced, Whitespace)

\* no site crawl was called
NoSite ==
    /\ start_url = NoUrl
    /\ max_depth = 0
    /\ max_concurrency = 1
    /\ web = NoLinks
    /\ crawled_urls = {}
    /\ queued_urls = {}
    /\ crawl_queue = <<>>
    /\ unfinished_tasks = 0
    /\ semaphore = max_concurrency
    /\ sem_waiters = <<>>
    /\ results = [success |-> <<>>, failed |-> <<>>, skipped_by_filter |-> <<>>,
                  initial_url |-> NoUrl]
    /\ written = {}
    /\ worker = [i \in Workers |-> FreshWorker]
    /\ ready = <<>>
    /\ running = NoTask
    /\ main_pc = "idle"
    /\ arun_calls = [u \in Urls |-> 0]
    /\ put_log = <<>>
    /\ fetch_outcome = [u \in Urls |-> "none"]
    /\ sink_status = [u \in Urls |-> "none"]
    /\ makedirs = "none"

CleanInit ==
    /\ text_in \in MdTexts
    /\ text_out = <<>>
    /\ clean_pc = "raw"
    /\ NoSite
    /\ NoBatch

\* cleaned_content = clean_markdown(markdown_content)
clean_text ==
    /\ clean_pc = "raw"
    /\ text_out' = clean_markdown(text_in)
    /\ clean_pc' = "once"
    /\ UNCHANGED <<inputs, site_vars, batch_vars, text_in>>

\* clean_markdown applied to the text it returned
clean_cleaned_text ==
    /\ clean_pc = "once"
    /\ text_in' = text_out
    /\ text_out' = clean_markdown(text_out)
    /\ clean_pc' = "twice"
    /\ UNCHANGED <<inputs, site_vars, batch_vars>>

CleanNext == clean_text \/ clean_cleaned_text

CleanSpec == CleanInit /\ [][CleanNext]_vars

(* ------------------------- notions of the claims ----------------------- *)
Range(seq) == {seq[k] : k \in 1..Len(seq)}

FailedUrlSeq == [k \in 1..Len(results.failed) |-> results.failed[k].url]

\* the URLs of the three result lists, one after the other
ResultUrlSeq == results.success \o FailedUrlSeq \o results.skipped_by_filter

ResultUrls == Range(ResultUrlSeq)

NoDuplicates(seq) == \A j, k \in 1..Len(seq) : seq[j] = seq[k] => j = k

\* the crawl got as far as seeding the queue and starting the workers
CrawlStarted == put_log # <<>>

Returned == main_pc = "returned"

\* the depth with which a URL was put on the queue
PutDepth(url) == (CHOOSE e \in Range(put_log) : e.url = url).depth

WasPut(url) == \E e \in Range(put_log) : e.url = url

\* the in-domain URLs the links of a page lead to
InDomainLinks(page) ==
    { urljoin(page, href) : href \in Range(web[page]) }
        \cap { u \in Urls : urlparse(u).netloc = urlparse(start_url).netloc }

\* the workers that hold a slot of the semaphore, and those whose fetch is in flight
Holding == { i \in Workers : worker[i].pc \in {"arun", "arun_done", "future_result"} }

InFlight == { i \in Workers : worker[i].pc = "arun" }

\* where a worker is between taking an entry from the queue and task_done
Processing == {"arun", "acquire", "arun_done", "future_result"}

\* a worker is between taking url from the queue and its task_done
InProgress(url) ==
    \E i \in Workers : /\ worker[i].pc \in Processing
                       /\ worker[i].current_url = url

\* url is waiting on the queue
OnQueue(url) == \E k \in 1..Len(crawl_queue) : crawl_queue[k].url = url

\* the fetcher reports a link of page that cannot be resolved
HasBadLink(page) == \E href \in Range(web[page]) : urljoin_raises(page, href)

\* the URLs put on the queue, in the order of the puts
PutUrlSeq == [k \in 1..Len(put_log) |-> put_log[k].url]

\* a crawl_page task that has started and has not ended
ActiveWorkers ==
    { i \in Workers : worker[i] # FreshWorker /\ worker[i].pc \notin {"done", "cancelled"} }

\* no site crawl is going on: no task of one is ready, running or suspended
NoSiteActivity ==
    /\ main_pc \in {"idle", "returned", "raised"}
    /\ ActiveWorkers = {}
    /\ InFlight = {}
    /\ ready = <<>>

\* the entry of a site whose output directory could not be made
MakedirsFailedEntry(url) ==
    [success |-> <<>>,
     failed |-> <<[url |-> url, error |-> "cannot_create_output_directory"]>>,
     skipped_by_filter |-> <<>>, initial_url |-> url]

\* the URLs within k link hops of the seed along successfully fetched pages
RECURSIVE Within(_)
Within(k) ==
    IF k = 0 THEN {start_url}
    ELSE LET near == Within(k - 1)
         IN  near \cup UNION { InDomainLinks(page) :
                                 page \in { q \in near : fetch_outcome[q] = "success" } }

\* the least number of link hops from the seed to a queued URL along
\* pages fetched with success
Dist(url) == CHOOSE k \in 0..max_depth :
                /\ url \in Within(k)
                /\ \A j \in 0..(k - 1) : url \notin Within(j)

NonDecreasing(seq) == \A j, k \in 1..Len(seq) : j <= k => seq[j] <= seq[k]

(* ------------------------------- claims -------------------------------- *)
\* C1: in one site crawl crawler.arun is called at most once for each URL,
\* and no URL appears twice in success, failed and skipped_by_filter taken
\* together.
C1_AtMostOnceVisit ==
    /\ \A u \in Urls : arun_calls[u] <= 1
    /\ NoDuplicates(ResultUrlSeq)

\* C1 witness: the crawl has returned, PageA and PageB both linked to PageC
\* and were both fetched with success, and PageC was fetched once and saved.
C1_Witness ==
    /\ Returned
    /\ web = WebDiamond
    /\ fetch_outcome[PageA] = "success"
    /\ fetch_outcome[PageB] = "success"
    /\ arun_calls[PageC] = 1
    /\ PageC \in Range(results.success)

\* C2: the seed is put with depth 0, every entry put by link discovery has
\* the depth of the discovering page plus 1, and no entry on the queue and
\* no page being fetched has a depth above max_depth.
C2_DepthMonotonicity ==
    /\ \A e \in Range(put_log) :
          /\ e.by = "seed" => e.depth = 0
          /\ e.by = "link" => e.depth = e.parent_depth + 1
    /\ \A k \in 1..Len(crawl_queue) : crawl_queue[k].depth <= max_depth
    /\ \A i \in Workers :
          worker[i].pc \in {"arun", "acquire", "arun_done", "future_result"}
              => worker[i].current_depth <= max_depth

\* C2 witness: a page discovered through a link is being fetched at the
\* depth limit.
C2_Witness ==
    /\ max_depth >= 1
    /\ \E i \in Workers : /\ worker[i].pc = "arun"
                          /\ worker[i].current_depth = max_depth
                          /\ worker[i].current_url # start_url

\* C3: every URL in a result list, and every URL ever queued, has the host
\* of the seed (a link to another host is dropped); and when the crawl
\* returns, every in-domain link of a page fetched with success at a depth
\* below max_depth has been queued and visited.
C3_DomainContainment ==
    /\ \A u \in ResultUrls \cup queued_urls :
          urlparse(u).netloc = urlparse(start_url).netloc
    /\ Returned =>
          \A page \in Urls :
              (/\ fetch_outcome[page] = "success"
               /\ PutDepth(page) < max_depth)
                  => \A u \in InDomainLinks(page) :
                        u \in queued_urls /\ u \in crawled_urls

\* C3 witness: the seed linked to PageA and to a page of another host; the
\* crawl has returned, PageA was visited and the other page is in no list.
C3_Witness ==
    /\ Returned
    /\ web = WebForeign
    /\ max_depth >= 1
    /\ fetch_outcome[Home] = "success"
    /\ PageA \in crawled_urls
    /\ Foreign \notin ResultUrls

\* C4: the fetches in flight are made by workers that hold a slot of the
\* semaphore, the slots held and the slots free add up to max_concurrency,
\* so at most max_concurrency fetches are in flight.
C4_ConcurrencyCap ==
    /\ InFlight \subseteq Holding
    /\ semaphore >= 0
    /\ semaphore + Cardinality(Holding) = max_concurrency
    /\ Cardinality(InFlight) <= max_concurrency

\* C4 witness: the fetch of a page that matches the exclusion filter is in
\* flight, and one slot is taken.
C4_Witness ==
    \E i \in Workers : /\ worker[i].pc = "arun"
                       /\ worker[i].filtered
                       /\ semaphore = max_concurrency - 1

\* C5: when every fetch returns and the event loop runs the tasks that are
\* ready, crawl_queue.join() returns and crawl_website_single_site returns
\* its result, whatever the links between the pages are.
C5_Termination == <>Returned

\* C5 witness: the crawl has returned on a web in which the seed and PageA
\* link to themselves and PageA links back to the seed, both fetched with
\* success at a depth below max_depth.
C5_Witness ==
    /\ Returned
    /\ web = WebForeign
    /\ max_depth >= 2
    /\ fetch_outcome[Home] = "success"
    /\ fetch_outcome[PageA] = "success"
    /\ \A i \in Workers : worker[i].pc = "done"

\* C6: when a crawl that seeded its queue returns, every in-domain URL
\* within max_depth link hops of the seed along pages fetched with success
\* has been visited and its outcome is decided (it was fetched or filtered).
C6_CrawlCompleteness ==
    (Returned /\ CrawlStarted) =>
        \A u \in Within(max_depth) :
            /\ u \in crawled_urls
            /\ ~InProgress(u)
            /\ fetch_outcome[u] # "none" \/ u \in Range(results.skipped_by_filter)

\* C6 witness: the crawl has returned with max_depth 2 on the web where
\* PageD is two hops from the seed through PageB and three through PageA
\* and PageC; every page on the way was fetched with success.
C6_Witness ==
    /\ Returned
    /\ web = WebShortcut
    /\ max_depth = 2
    /\ \A u \in {Home, PageA, PageB, PageC} : fetch_outcome[u] = "success"
    /\ PageD \in crawled_urls
    /\ PutDepth(PageD) = 2

\* C7: when the crawl returns, every visited URL with the host of the seed
\* is in success, failed or skipped_by_filter.
C7_NoSilentDrop ==
    Returned =>
        \A u \in crawled_urls :
            urlparse(u).netloc = urlparse(start_url).netloc => u \in ResultUrls

\* C8: once the pass for a visited, unfiltered URL whose fetch raised or
\* returned an unsuccessful result is over, the URL is in failed with the
\* error message.
C8_FetchErrorsRecorded ==
    \A u \in Urls :
        (/\ fetch_outcome[u] \in {"unsuccessful", "raised"}
         /\ u \notin FilteredUrls
         /\ ~InProgress(u))
            => [url |-> u, error |-> "fetch_error"] \in Range(results.failed)

\* C9: a URL whose fetch succeeded and for which process_markdown_and_save
\* reported failure is in failed with the error and not in success, and the
\* crawl goes on: when it returns the queue is empty and every queued URL
\* was visited.
C9_WriteErrorsRecorded ==
    /\ \A u \in Urls :
          sink_status[u] = "failed" =>
              /\ [url |-> u, error |-> "sink_error"] \in Range(results.failed)
              /\ u \notin Range(results.success)
              /\ u \notin written
    /\ (Returned /\ CrawlStarted) =>
          /\ crawl_queue = <<>>
          /\ queued_urls \subseteq crawled_urls

\* C9 witness: the file of the seed could not be written, and the crawl
\* went on to visit PageA and returned.
C9_Witness ==
    /\ Returned
    /\ sink_status[Home] = "failed"
    /\ fetch_outcome[PageA] # "none"

\* C10 as stated: no entry put by link discovery comes from a page that is
\* in failed.
C10_NoLinksFromFailed ==
    \A e \in Range(put_log) :
        e.by = "link" => e.parent \notin Range(FailedUrlSeq)

\* C10 amended: no entry put by link discovery comes from a page whose
\* fetch did not return a successful result; a page that is in failed
\* because its file could not be written has its in-domain links queued
\* when its depth is below max_depth.
C10_NoLinksFromFailedFetch ==
    /\ \A e \in Range(put_log) :
          e.by = "link" => fetch_outcome[e.parent] = "success"
    /\ \A page \in Urls :
          (/\ sink_status[page] = "failed"
           /\ ~InProgress(page)
           /\ PutDepth(page) < max_depth)
              => InDomainLinks(page) \subseteq queued_urls

\* C10 witness: the fetch of PageA returned an unsuccessful result below
\* the depth limit; PageA is in failed and its link PageB was never queued.
C10_Witness ==
    /\ Returned
    /\ web = WebChain
    /\ max_depth >= 2
    /\ fetch_outcome[PageA] = "unsuccessful"
    /\ PageA \in Range(FailedUrlSeq)
    /\ PageB \notin queued_urls

\* C11: a visited URL of the seed's host whose sanitized file name contains
\* an exclusion keyword is in skipped_by_filter, is not in success, and was
\* never handed to process_markdown_and_save (no file is written), whatever
\* its fetch returned; once the pass of such a page fetched with success at
\* a depth below max_depth is over, its in-domain links are queued, and
\* those it put on the queue have its depth plus 1.
C11_ExclusionPrecedence ==
    \A u \in FilteredUrls :
        /\ (u \in crawled_urls /\ urlparse(u).netloc = urlparse(start_url).netloc)
              => u \in Range(results.skipped_by_filter)
        /\ u \notin Range(results.success)
        /\ sink_status[u] = "none"
        /\ u \notin written
        /\ (/\ fetch_outcome[u] = "success"
            /\ ~InProgress(u)
            /\ PutDepth(u) < max_depth)
              => /\ InDomainLinks(u) \subseteq queued_urls
                 /\ \A e \in Range(put_log) :
                       (e.by = "link" /\ e.parent = u) => e.depth = PutDepth(u) + 1

\* C11 witness: the image page was fetched with success at depth 1, below
\* max_depth; it is in skipped_by_filter, and its link PageB was put on the
\* queue by it with depth 2.
C11_Witness ==
    /\ web = WebImage
    /\ fetch_outcome[Image] = "success"
    /\ ~InProgress(Image)
    /\ Image \in Range(results.skipped_by_filter)
    /\ \E e \in Range(put_log) : e.url = PageB /\ e.parent = Image /\ e.depth = 2

\* C12: when a crawl with max_depth 0 that seeded its queue returns, exactly
\* one fetch was made, for the seed, nothing but the seed was ever put on
\* the queue, and success and failed hold exactly one entry together.
C12_DepthZeroExactlySeed ==
    (Returned /\ CrawlStarted /\ max_depth = 0) =>
        /\ arun_calls[start_url] = 1
        /\ \A u \in Urls \ {start_url} : arun_calls[u] = 0
        /\ Len(put_log) = 1
        /\ Len(results.success) + Len(results.failed) = 1

\* C13: the pool is used: when the event loop is idle with a fetch in
\* flight, max_concurrency is at least 2 and a URL is still waiting on the
\* queue, a second fetch is in flight.
C13_ParallelFetching ==
    (/\ max_concurrency >= 2
     /\ running = NoTask
     /\ ready = <<>>
     /\ InFlight # {}
     /\ crawl_queue # <<>>)
        => Cardinality(InFlight) >= 2

\* C14: while process_markdown_and_save runs in the executor for the page a
\* worker fetched, that worker holds no slot of the semaphore (the slots
\* free and those held by the other workers add up to max_concurrency) and
\* does not keep the event loop, so that other workers can run.
C14_PostProcessingOffGate ==
    \A i \in Workers :
        worker[i].pc = "future_result" =>
            /\ semaphore + Cardinality(Holding \ {i}) = max_concurrency
            /\ running # Worker(i)

\* C15: in one site crawl no URL is put on the crawl queue twice: the puts
\* name pairwise different URLs, each of them is in queued_urls from its put
\* on, and no two entries waiting on the queue have the same URL.
C15_EnqueueAtMostOnce ==
    /\ NoDuplicates(PutUrlSeq)
    /\ Range(PutUrlSeq) = queued_urls
    /\ NoDuplicates([k \in 1..Len(crawl_queue) |-> crawl_queue[k].url])

\* C15 witness: PageA put PageC on the queue; PageB, which links to PageC
\* too, was then fetched with success while PageC was still waiting on the
\* queue, and did not put it again.
C15_Witness ==
    /\ web = WebDiamond
    /\ fetch_outcome[PageB] = "success"
    /\ ~InProgress(PageB)
    /\ PageC \notin crawled_urls
    /\ \E k \in 1..Len(crawl_queue) : crawl_queue[k].url = PageC
    /\ \E e \in Range(put_log) : e.url = PageC /\ e.parent = PageA

\* C16: with a start URL that parses to an empty host nothing is ever put
\* on the queue, no worker is started and no fetch is made; the first step
\* of crawl_website_single_site returns a result whose failed list is the
\* one entry for the start URL and whose success and skipped_by_filter
\* lists are empty.
C16_InvalidStartUrl ==
    urlparse(start_url).netloc = NoHost =>
        /\ put_log = <<>>
        /\ crawl_queue = <<>>
        /\ ready = <<>>
        /\ \A i \in Workers : worker[i] = FreshWorker
        /\ \A u \in Urls : arun_calls[u] = 0
        /\ main_pc \in {"begin", "returned"}
        /\ Returned =>
              /\ results.failed = <<[url |-> start_url, error |-> "no_domain"]>>
              /\ results.success = <<>>
              /\ results.skipped_by_filter = <<>>

\* C16 witness: the crawl of the start URL without a host has returned.
C16_Witness ==
    /\ start_url = Hostless
    /\ Returned
    /\ Len(results.failed) = 1

\* C17: when the output directory of a site cannot be made, the site crawl
\* returns in that step with one failed entry for the start URL and nothing
\* else, puts nothing on the queue and makes no fetch; the batch goes on:
\* it is completed only when the site crawl was called for every start URL
\* of the list.
C17_MakedirsFailureOneSite ==
    /\ makedirs = "failed" =>
          /\ Returned
          /\ results = MakedirsFailedEntry(start_url)
          /\ put_log = <<>>
          /\ \A u \in Urls : arun_calls[u] = 0
          /\ NoSiteActivity
          /\ batch_pc \in {"crawling", "loop", "completed"}
    /\ batch_pc = "completed" => calls = urls_to_crawl

\* C17 witness: the directory of the first site could not be made, its
\* result with the one failed entry is stored, and the batch is fetching
\* the seed of the second site.
C17_Witness ==
    /\ batch_pc = "crawling"
    /\ site_index = 2
    /\ calls[1] # calls[2]
    /\ site_crawl_results[calls[1]] = MakedirsFailedEntry(calls[1])
    /\ \E i \in Workers : worker[i].pc = "arun" /\ worker[i].current_url = start_url

\* C18: the site crawl is called for the start URLs in the order of the
\* list, one call for each position passed; between two calls no site crawl
\* is going on (the one before has returned or raised and has left no
\* worker and no fetch behind), and every active worker works on the site
\* of the current call.
C18_SitesSequential ==
    /\ Len(calls) = site_index
    /\ site_index <= Len(urls_to_crawl)
    /\ \A k \in 1..Len(calls) : calls[k] = urls_to_crawl[k]
    /\ batch_pc # "crawling" => NoSiteActivity
    /\ \A i \in ActiveWorkers :
          /\ batch_pc = "crawling"
          /\ worker[i].crawl_start_domain = urlparse(calls[site_index]).netloc

\* C18 witness: the crawl of the first site has returned with a saved page
\* and its result is stored; a fetch of the second site, on another host,
\* is in flight.
C18_Witness ==
    /\ batch_pc = "crawling"
    /\ site_index = 2
    /\ urlparse(calls[1]).netloc # urlparse(calls[2]).netloc
    /\ "success" \in DOMAIN site_crawl_results[calls[1]]
    /\ site_crawl_results[calls[1]].success # <<>>
    /\ \E i \in InFlight : worker[i].crawl_start_domain = urlparse(calls[2]).netloc

\* C19: when a site crawl has raised, the error entry is stored under its
\* start URL and the batch is back in its loop; every start URL whose call
\* is over has an entry, and the batch is completed only when the site crawl
\* was called for every start URL, each of which then has an entry.
C19_BatchFaultIsolation ==
    /\ main_pc = "raised" =>
          /\ start_url \in DOMAIN site_crawl_results
          /\ site_crawl_results[start_url] = ErrorEntry
          /\ batch_pc \in {"loop", "crawling", "completed"}
    /\ \A k \in 1..Len(calls) :
          (k < Len(calls) \/ batch_pc # "crawling")
              => calls[k] \in DOMAIN site_crawl_results
    /\ batch_pc = "completed" =>
          /\ calls = urls_to_crawl
          /\ Range(urls_to_crawl) \subseteq DOMAIN site_crawl_results

\* C19 witness: the crawl of the first site raised and its error entry is
\* stored; the second site was crawled, and the batch is completed with an
\* entry for both.
C19_Witness ==
    /\ batch_pc = "completed"
    /\ Len(urls_to_crawl) = 2
    /\ calls[1] # calls[2]
    /\ site_crawl_results[calls[1]] = ErrorEntry
    /\ fetch_outcome[calls[2]] = "success"
    /\ site_crawl_results[calls[2]] = results

\* C20: cleaning a cleaned text changes nothing: the value of
\* clean_markdown applied to a value of clean_markdown is that value.
C20_IdempotentCleaning ==
    clean_pc = "twice" => text_out = text_in

\* C21: a worker leaves its loop only in a state in which the queue holds
\* no entry and the count of unfinished entries is 0, so that no other
\* worker is still handling an entry that may add links to the queue.
C21_WorkerExitCondition ==
    [][\A i \in Workers :
          (worker[i].pc # "done" /\ worker'[i].pc = "done")
              => /\ crawl_queue = <<>>
                 /\ unfinished_tasks = 0
                 /\ \A j \in Workers \ {i} : worker[j].pc \notin Processing]_vars

\* C22: with max_concurrency at least 2, a URL that waits on the queue while
\* one fetch is in flight does not wait for that fetch: it is taken from
\* the queue in the end, unless the fetch returns or a second one starts.
C22_HungFetchOneSlot ==
    \A u \in Urls :
        (max_concurrency >= 2 /\ OnQueue(u) /\ Cardinality(InFlight) = 1)
            ~> (~OnQueue(u) \/ Cardinality(InFlight) # 1)

\* C23: a URL whose fetch is in flight, or that waits for a slot or is
\* being post-processed, is in crawled_urls; it is not on the queue, and it
\* was put on the queue once only, so a link to it found meanwhile is not
\* queued again.
C23_VisitedBeforeFetch ==
    \A i \in Workers :
        worker[i].pc \in Processing =>
            /\ worker[i].current_url \in crawled_urls
            /\ ~OnQueue(worker[i].current_url)
            /\ Cardinality({k \in 1..Len(put_log) :
                               put_log[k].url = worker[i].current_url}) = 1

\* C23 witness: PageA, which links to itself and back to the seed, was
\* fetched with success below max_depth while the seed was visited; neither
\* was queued again and the fetch of PageB is in flight.
C23_Witness ==
    /\ web = WebForeign
    /\ max_depth >= 2
    /\ fetch_outcome[PageA] = "success"
    /\ \E i \in InFlight : worker[i].current_url = PageB
    /\ Len(put_log) = 3

\* C24: the step of a worker whose fetch raised acknowledges the entry
\* (one task_done, nothing put), leaves the worker at the head of its loop
\* and running; and a worker ends only in a state with an empty queue.
C24_WorkerSurvivesException ==
    [][\A i \in Workers :
          /\ (/\ worker[i].pc = "arun_done"
              /\ worker[i].result.raised
              /\ worker'[i] # worker[i])
                => /\ worker'[i].pc = "loop"
                   /\ running' = Worker(i)
                   /\ unfinished_tasks' = unfinished_tasks - 1
                   /\ crawl_queue' = crawl_queue
          /\ (worker[i].pc # "done" /\ worker'[i].pc = "done")
                => crawl_queue = <<>>]_vars

\* C24 witness: the fetch of PageA raised while PageB was waiting on the
\* queue, and the same worker is now fetching PageB.
C24_Witness ==
    /\ web = WebDiamond
    /\ fetch_outcome[PageA] = "raised"
    /\ \E i \in InFlight : worker[i].current_url = PageB

\* C25: a link that cannot be resolved is never queued. Once the pass of a
\* page with such a link, fetched with success below max_depth, is over,
\* its other in-domain links are queued; and the page is in success when
\* its file was written, in failed when the write failed, as for any page.
C25_BadLinkDropsItself ==
    /\ \A e \in Range(put_log) : e.url \in Urls
    /\ \A page \in Urls :
          (/\ HasBadLink(page)
           /\ fetch_outcome[page] = "success"
           /\ ~InProgress(page))
              => /\ PutDepth(page) < max_depth
                      => InDomainLinks(page) \subseteq queued_urls
                 /\ sink_status[page] = "success"
                      => /\ page \in Range(results.success)
                         /\ page \notin Range(FailedUrlSeq)
                 /\ sink_status[page] = "failed"
                      => /\ page \in Range(FailedUrlSeq)
                         /\ page \notin Range(results.success)
                 /\ page \notin FilteredUrls => sink_status[page] # "none"

\* C25 witness: the seed has a link that cannot be resolved between its
\* links to PageA and PageB; its file is written, and PageB, the link after
\* the bad one, was put on the queue by it.
C25_Witness ==
    /\ web = WebBadLink
    /\ sink_status[Home] = "success"
    /\ Home \in Range(results.success)
    /\ \E e \in Range(put_log) : e.url = PageB /\ e.parent = Home

\* C26: overall_metadata.json is written at most once; it is written when
\* the site crawl was called for every start URL of the list and each call
\* is over, and from the write on no site crawl is going on; a completed
\* batch has made the one write.
C26_SummaryOnceLast ==
    /\ Len(metadata) <= 1
    /\ metadata # <<>> =>
          /\ batch_pc = "completed"
          /\ calls = urls_to_crawl
          /\ Range(urls_to_crawl) \subseteq DOMAIN site_crawl_results
          /\ NoSiteActivity
    /\ batch_pc = "completed" => Len(metadata) = 1

\* C26 witness: a batch of two sites is completed, pages of its last site
\* were fetched, and the summary is written.
C26_Witness ==
    /\ batch_pc = "completed"
    /\ Len(urls_to_crawl) = 2
    /\ metadata = <<"saved">>
    /\ fetch_outcome[start_url] = "success"

\* C27: the count of unfinished entries is the number of entries waiting
\* on the queue plus the number of entries a worker has taken and not yet
\* acknowledged; it is never negative, and it is the number of puts minus
\* the number of entries dealt with.
C27_AcknowledgementAccounting ==
    /\ unfinished_tasks =
          Len(crawl_queue) + Cardinality({i \in Workers : worker[i].pc \in Processing})
    /\ unfinished_tasks >= 0
    /\ unfinished_tasks <= Len(put_log)
    /\ Returned => unfinished_tasks = 0

\* C27 witness: entries were acknowledged on the paths of a saved page, of
\* a filtered page and of a page whose fetch raised; the last entry is
\* being handled, nothing waits on the queue and the count is 1.
C27_Witness ==
    /\ web = WebImage
    /\ max_depth = 2
    /\ sink_status[Home] = "success"
    /\ fetch_outcome[Image] = "success"
    /\ fetch_outcome[PageA] = "raised"
    /\ unfinished_tasks = 1
    /\ crawl_queue = <<>>
    /\ \E i \in InFlight : worker[i].current_url = PageB

\* C28: in every state in which an entry waits on the queue, a worker that
\* has not left its loop exists (it is ready to run, running or suspended
\* in a pass), so the entry will be taken; when all workers have ended the
\* queue is empty and no entry is unfinished.
C28_NoStrandedWork ==
    /\ crawl_queue # <<>> =>
          \E i \in Workers : worker[i].pc \in Processing \cup {"loop"}
    /\ (\A i \in Workers : worker[i].pc \in {"done", "cancelled"}) =>
          /\ crawl_queue = <<>>
          /\ unfinished_tasks = 0

\* C28 witness: of two workers one has left its loop on its first step; the
\* other has queued the links of the seed and is fetching the first while
\* the second waits on the queue.
C28_Witness ==
    /\ max_concurrency = 2
    /\ \E i \in Workers : worker[i].pc = "done"
    /\ \E i \in InFlight : worker[i].current_depth = 1
    /\ crawl_queue # <<>>

\* C29: entries are put on the queue, wait on it and are taken from it in
\* non-decreasing depth order (no entry on the queue is less deep than an
\* entry being handled), and the depth of every queued URL is the least
\* number of link hops from the seed along pages fetched with success.
C29_BreadthFirstOrder ==
    /\ NonDecreasing([k \in 1..Len(put_log) |-> put_log[k].depth])
    /\ NonDecreasing([k \in 1..Len(crawl_queue) |-> crawl_queue[k].depth])
    /\ \A i \in Workers :
          worker[i].pc \in Processing =>
              \A k \in 1..Len(crawl_queue) :
                  worker[i].current_depth <= crawl_queue[k].depth
    /\ \A u \in queued_urls : PutDepth(u) = Dist(u)

\* C29 witness: PageD, two hops from the seed through PageB and three
\* through PageA and PageC, was put by PageB with depth 2 after PageC, and
\* PageC is being fetched while PageD waits on the queue.
C29_Witness ==
    /\ web = WebShortcut
    /\ max_depth = 2
    /\ \E e \in Range(put_log) : e.url = PageD /\ e.parent = PageB /\ e.depth = 2
    /\ \E i \in InFlight : worker[i].current_url = PageC
    /\ OnQueue(PageD)

\* C30: a filtered URL put with depth max_depth is never fetched and no
\* worker waits for or holds a semaphore slot for it; once taken from the
\* queue it is in skipped_by_filter. No filtered URL is ever in failed,
\* and one whose fetch did not succeed is in skipped_by_filter.
C30_FilteredAtDepthLimit ==
    \A u \in FilteredUrls :
        /\ u \notin Range(FailedUrlSeq)
        /\ (WasPut(u) /\ PutDepth(u) = max_depth) =>
              /\ arun_calls[u] = 0
              /\ fetch_outcome[u] = "none"
              /\ ~InProgress(u)
              /\ u \in crawled_urls => u \in Range(results.skipped_by_filter)
        /\ fetch_outcome[u] \in {"unsuccessful", "raised"} =>
              u \in Range(results.skipped_by_filter)

\* C30 witness: the crawl with max_depth 1 has returned; the image page,
\* put with depth 1, is in skipped_by_filter and was not fetched, while
\* PageA, put with the same depth, was.
C30_Witness ==
    /\ Returned
    /\ web = WebImage
    /\ max_depth = 1
    /\ Image \in Range(results.skipped_by_filter)
    /\ arun_calls[Image] = 0
    /\ arun_calls[PageA] = 1

====
